---- MODULE Spec2Model ----
(***************************************************************************)
(* Role-based access control of the admin console: the roles / user_roles  *)
(* schema with its SQL helper functions and row-level-security policies,   *)
(* the useUserRoles hook, and the RoleManagement and BookingManagement     *)
(* components that write through those policies.                           *)
(*                                                                         *)
(* One browser session is modelled: the hook, the components, and the      *)
(* requests it sends to the store as its signed-in caller.                 *)
(* Store unavailability is modelled for the get_user_roles RPC, the one    *)
(* call for which the code has a handling path of its own.                 *)
(***************************************************************************)
EXTENDS Integers, FiniteSets, Sequences, TLC

\* ------------------------------------------------------------------ bounds
MaxUsers == 2
MaxRoleId == 9
MaxPending == 1
MaxBookings == 2
MaxArticles == 1
MaxCalls == 2

\* --------------------------------------------------------------- constants
NoUser == 0
Users == 1..MaxUsers
Emails == <<"a@x.com", "b@x.com", "c@x.com", "d@x.com">>
Email(u) == Emails[u]

RoleNames ==
  <<"super_admin", "admin", "yoga_acharya", "mantra_curator", "sangha_guide",
    "energy_exchange_lead", "zen_analyst", "yogi_in_training">>
NumSeedRoles == 8
SeedRoles == {[id |-> i, name |-> RoleNames[i]] : i \in 1..NumSeedRoles}

\* Inputs of the operations
UnknownRole == "guest_teacher"
AssignNames == {"super_admin", "admin", UnknownRole}
CatalogNames == {UnknownRole}
LegacySuper == [email |-> Email(1), role |-> "super_admin"]
LegacyCandidates == {[email |-> Email(2), role |-> "admin"]}

VARIABLES
  roles,        \* table roles: rows [id, name]
  nextRoleId,   \* the next id gen_random_uuid() hands out
  user_roles,   \* table user_roles: rows [user_id, role_id]
  admin_users,  \* table admin_users: rows [email, role]
  bookings,     \* table bookings: rows [id, status, email]
  auth_users,   \* table auth.users: the ids of the identities that exist
  yoga_queries, \* table yoga_queries: rows [id, status, email]
  contact_messages, \* table contact_messages: rows [id, status]
  articles,     \* table articles: rows [id, status]
  user,         \* the browser's signed-in identity (NoUser: null)
  hookRoles,    \* useUserRoles: roles
  hookError,    \* useUserRoles: error (TRUE: a message is set)
  pending,      \* get_user_roles requests in flight: the uid each was sent as
  rmRoles,      \* RoleManagement: roles
  rmLoading,    \* RoleManagement: loading
  rmUsers,      \* RoleManagement: users, a list of [id, roles]
  bmBookings,   \* BookingManagement: bookings
  actionLoading,\* BookingManagement: actionLoading (0: null)
  bmCalls,      \* BookingManagement: handler calls between their awaits
  umUsers,      \* UserManagement: users, rows [email, is_admin]
  isAdminCall,  \* an is_admin() call between its two queries
  assignCalls,  \* assign calls between their two awaits
  lastOp        \* what the last operation was and what its caller was shown

vars == <<roles, nextRoleId, user_roles, admin_users, bookings, yoga_queries,
          contact_messages, articles, user, hookRoles, hookError, pending,
          rmRoles, rmLoading, bmBookings, actionLoading, umUsers, isAdminCall,
          assignCalls, auth_users, rmUsers, bmCalls, lastOp>>
dbVars == <<roles, nextRoleId, user_roles, admin_users, bookings>>
hookVars == <<user, hookRoles, hookError, pending>>
rmVars == <<rmRoles, rmLoading>>
bmVars == <<bmBookings, actionLoading>>
contentVars == <<yoga_queries, contact_messages, articles>>
umVars == <<umUsers>>
callVars == <<isAdminCall, assignCalls>>

\* lastOp: the operation, the error its caller was given ("none": it reported
\* success; "returned": it returned without a word) and the rows it changed.
NoOp == [op |-> "none", err |-> "none", rows |-> 0]
Op(o, e, n) == [op |-> o, err |-> e, rows |-> n]

\* ------------------------------------------------------- SQL helper functions
Authenticated(c) == c \in Users

\* The query of get_user_roles() over given tables, for auth.uid() = c
RoleNamesOf(ur, rl, c) ==
  {r.name : r \in {x \in rl : \E a \in ur : a.role_id = x.id /\ a.user_id = c}}

get_user_roles(c) == RoleNamesOf(user_roles, roles, c)

has_role(c, role_name) ==
  \E ur \in user_roles : \E r \in roles :
      ur.role_id = r.id /\ ur.user_id = c /\ r.name = role_name

LegacyAdmin(c) ==
  c \in Users /\
  \E a \in admin_users : a.email = Email(c) /\ a.role \in {"admin", "super_admin"}

\* Mutant: is_admin() without the fallback to admin_users.
is_admin_NoFallback(c) ==
  \E ur \in user_roles : \E r \in roles :
      ur.role_id = r.id /\ ur.user_id = c /\ r.name \in {"admin", "super_admin"}

\* Mutant: is_admin() that counts the admin role and not super_admin.
is_admin_AdminRoleOnly(c) ==
  IF has_role(c, "admin") THEN TRUE ELSE LegacyAdmin(c)

is_admin(c) ==
  IF \E ur \in user_roles : \E r \in roles :
        ur.role_id = r.id /\ ur.user_id = c /\ r.name \in {"admin", "super_admin"}
  THEN TRUE
  ELSE LegacyAdmin(c)

\* Mutant: can_manage_roles() answers as is_admin() does.
can_manage_roles_AsIsAdmin(c) == is_admin(c)

can_manage_roles(c) == has_role(c, "super_admin")

\* --------------------------------------------------- row-level security
\* The tables are reached with the privileges the hosting platform grants the
\* anon and authenticated roles on every table of the public schema, so a
\* statement is decided by the policies below. A policy TO authenticated does
\* not apply to a caller who is not signed in.
\* roles: "Anyone can read roles"
RolesReadPolicy(c) == TRUE
\* roles: "Super admins can manage roles" (FOR ALL: USING and WITH CHECK)
RolesManagePolicy(c) == Authenticated(c) /\ can_manage_roles(c)
\* user_roles: "Users can read their own roles"
UserRolesOwnReadPolicy(c, row) == Authenticated(c) /\ row.user_id = c
\* user_roles: "Admins can read all user roles"
UserRolesAdminReadPolicy(c) == Authenticated(c) /\ is_admin(c)
\* Mutant: the write policy of user_roles asks for is_admin() only.
UserRolesManagePolicy_IsAdmin(c) == Authenticated(c) /\ is_admin(c)
\* user_roles: "Super admins can manage user roles" (FOR ALL)
UserRolesManagePolicy(c) == Authenticated(c) /\ can_manage_roles(c)

\* ------------------------------------------------------ store operations
\* Each yields [err, rows, ...]: the error the statement raises ("none": it
\* succeeds), the number of rows it changed, and the table afterwards.
RoleIdsNamed(name) == {r.id : r \in {x \in roles : x.name = name}}
RoleIds == {r.id : r \in roles}

\* INSERT INTO user_roles (user_id, role_id): the policy's WITH CHECK, then the
\* primary key, then the foreign keys.
InsertUserRole(c, uid, rid) ==
  LET row == [user_id |-> uid, role_id |-> rid] IN
  IF ~UserRolesManagePolicy(c)
  THEN [err |-> "42501", rows |-> 0, table |-> user_roles]
  ELSE IF row \in user_roles
  THEN [err |-> "23505", rows |-> 0, table |-> user_roles]
  ELSE IF rid \notin RoleIds \/ uid \notin auth_users
  THEN [err |-> "23503", rows |-> 0, table |-> user_roles]
  ELSE [err |-> "none", rows |-> 1, table |-> user_roles \cup {row}]

\* Mutant: a delete that finds no row raises an error.
DeleteUserRole_ErrorOnNoRow(c, uid, rid) ==
  LET hit == {row \in user_roles : UserRolesManagePolicy(c) /\ row.user_id = uid
                                     /\ row.role_id = rid}
  IN IF hit = {}
     THEN [err |-> "PGRST116", rows |-> 0, table |-> user_roles]
     ELSE [err |-> "none", rows |-> Cardinality(hit), table |-> user_roles \ hit]

\* DELETE FROM user_roles WHERE user_id = uid AND role_id = rid: the policy's
\* USING filters the rows the statement sees; a row it does not see is not an error.
DeleteUserRole(c, uid, rid) ==
  LET seen == {row \in user_roles : UserRolesManagePolicy(c)}
      hit == {row \in seen : row.user_id = uid /\ row.role_id = rid}
  IN [err |-> "none", rows |-> Cardinality(hit), table |-> user_roles \ hit]

\* SELECT id FROM roles WHERE name = roleName, with .single(): an error unless
\* exactly one row comes back.
SingleRoleId(c, roleName) == {id \in RoleIdsNamed(roleName) : RolesReadPolicy(c)}

\* The two awaits of assignRole: the role id by name, then the insert.
AssignTxn(c, uid, roleName) ==
  LET ids == SingleRoleId(c, roleName) IN
  IF Cardinality(ids) # 1
  THEN [err |-> "PGRST116", rows |-> 0, table |-> user_roles]
  ELSE InsertUserRole(c, uid, CHOOSE id \in ids : TRUE)

\* The two awaits of removeRole: the role id by name, then the delete.
RemoveTxn(c, uid, roleName) ==
  LET ids == SingleRoleId(c, roleName) IN
  IF Cardinality(ids) # 1
  THEN [err |-> "PGRST116", rows |-> 0, table |-> user_roles]
  ELSE DeleteUserRole(c, uid, CHOOSE id \in ids : TRUE)

\* ------------------------------------------------- the migration DO block
\* SELECT id FROM auth.users WHERE email = email
UserIdByEmail(email) == {u \in auth_users : Email(u) = email}

\* The row the loop body inserts for one admin_users record (none when no
\* auth.users row has the email), with the role ids the block looked up in rl.
RoleIdIn(rl, name) == (CHOOSE r \in rl : r.name = name).id

\* Mutant: the loop body without its ELSE branch.
MigratedRows_SuperAdminOnly(rec, rl) ==
  {[user_id |-> u, role_id |-> RoleIdIn(rl, "super_admin")]
     : u \in IF rec.role = "super_admin" THEN UserIdByEmail(rec.email) ELSE {}}

MigratedRows(rec, rl) ==
  {[user_id |-> u,
    role_id |-> IF rec.role = "super_admin"
                THEN RoleIdIn(rl, "super_admin")
                ELSE RoleIdIn(rl, "admin")]
     : u \in UserIdByEmail(rec.email)}

\* user_roles after the block has run over admin_users au, roles rl and
\* user_roles ur (ON CONFLICT DO NOTHING: rows already there stay).
MigrationResult(au, rl, ur) == ur \cup UNION {MigratedRows(rec, rl) : rec \in au}

Migrate ==
  /\ RoleIdsNamed("super_admin") # {} /\ RoleIdsNamed("admin") # {}
  /\ user_roles' = MigrationResult(admin_users, roles, user_roles)
  /\ lastOp' = Op("migrate", "none", 0)
  /\ UNCHANGED <<auth_users, rmUsers, bmCalls, contentVars, umVars, callVars,
                 roles, nextRoleId, admin_users, bookings, hookVars, rmVars,
                 bmVars>>

\* ------------------------------------------------------------------- Init
\* The schema script has run to its end: the tables are created and seeded and
\* the migration block has copied the admin list it found into user_roles. The
\* browser has mounted with no user signed in.
InitialBookings ==
  {[id |-> b, status |-> "pending", email |-> Email(b)] : b \in 1..MaxBookings}
InitialQueries == {[id |-> 1, status |-> "pending", email |-> Email(1)]}
InitialMessages == {[id |-> 1, status |-> "new"]}
InitialArticles == {[id |-> 1, status |-> "draft"]}
NoCall == [pc |-> "none"]

InitContent ==
  /\ yoga_queries = InitialQueries
  /\ contact_messages = InitialMessages
  /\ articles = InitialArticles

InitBrowser ==
  /\ user = NoUser
  /\ hookRoles = {}
  /\ hookError = FALSE
  /\ pending = <<>>
  /\ rmRoles = {}
  /\ rmLoading = TRUE
  /\ rmUsers = <<>>
  /\ bmBookings = {}
  /\ actionLoading = 0
  /\ bmCalls = <<>>
  /\ umUsers = {}
  /\ isAdminCall = NoCall
  /\ assignCalls = <<>>
  /\ lastOp = NoOp

Init ==
  /\ auth_users = Users
  /\ roles = SeedRoles
  /\ nextRoleId = NumSeedRoles + 1
  /\ admin_users \in {{LegacySuper} \cup x : x \in SUBSET LegacyCandidates}
  /\ user_roles = MigrationResult(admin_users, SeedRoles, {})
  /\ bookings = InitialBookings
  /\ InitContent
  /\ InitBrowser

\* ------------------------------------------- is_admin() as the store runs it
\* is_admin() is a VOLATILE plpgsql function: each of its two queries reads
\* the tables as committed when that query starts. isAdminCall holds a call
\* whose first query found no admin Assignment: its caller, and (seen) the
\* values is_admin() has on each state committed since the call began.
IsAdminBegin(c) ==
  /\ isAdminCall.pc # "fallback"
  /\ isAdminCall' =
       IF \E ur \in user_roles : \E r \in roles :
             ur.role_id = r.id /\ ur.user_id = c /\ r.name \in {"admin", "super_admin"}
       THEN [pc |-> "done", caller |-> c, seen |-> {is_admin(c)}, result |-> TRUE]
       ELSE [pc |-> "fallback", caller |-> c, seen |-> {is_admin(c)}]
  /\ UNCHANGED <<auth_users, rmUsers, bmCalls, dbVars, contentVars, hookVars,
                 rmVars, bmVars, umVars,
                 assignCalls, lastOp>>

IsAdminFallback ==
  /\ isAdminCall.pc = "fallback"
  /\ isAdminCall' = [pc |-> "done", caller |-> isAdminCall.caller,
                     seen |-> isAdminCall.seen,
                     result |-> LegacyAdmin(isAdminCall.caller)]
  /\ UNCHANGED <<auth_users, rmUsers, bmCalls, dbVars, contentVars, hookVars,
                 rmVars, bmVars, umVars,
                 assignCalls, lastOp>>

\* A statement commits while a call is between its queries: the call's record
\* of the values is_admin() has taken gains the value on the new state.
Observed ==
  IF isAdminCall.pc = "fallback"
  THEN [isAdminCall EXCEPT !.seen =
          @ \cup {v \in BOOLEAN :
                    \E c \in Users : c = isAdminCall.caller /\ v = is_admin(c)'}]
  ELSE isAdminCall

\* ------------------------------------------------ useUserRoles (the hook)
hasRole(roleName) == roleName \in hookRoles
\* Mutant: every() in place of some().
hasAnyRole_Every(roleNames) == \A roleName \in roleNames : roleName \in hookRoles
hasAnyRole(roleNames) == \E roleName \in roleNames : roleName \in hookRoles
isAdmin == hasAnyRole({"admin", "super_admin"})
isSuperAdmin == hasRole("super_admin")

RemoveAt(q, i) == [j \in 1..(Len(q) - 1) |-> IF j < i THEN q[j] ELSE q[j + 1]]

\* The user prop changes to u: the effect calls fetchUserRoles(), which clears
\* error and sends the RPC as u. (The hook's loading flag, which nothing
\* modelled here reads, is left out.)
SignIn(u) ==
  /\ u \in Users /\ user # u
  /\ Len(pending) < MaxPending
  /\ user' = u
  /\ hookError' = FALSE
  /\ pending' = Append(pending, u)
  /\ UNCHANGED <<auth_users, rmUsers, bmCalls, contentVars, umVars, callVars,
                 hookRoles, dbVars, rmVars, bmVars, lastOp>>

\* The user prop becomes null: the effect clears the roles.
SignOut ==
  /\ user # NoUser
  /\ user' = NoUser
  /\ hookRoles' = {}
  /\ UNCHANGED <<auth_users, rmUsers, bmCalls, contentVars, umVars, callVars,
                 hookError, pending, dbVars, rmVars, bmVars, lastOp>>

\* Mutant: a failed fetch leaves the roles as they were.
FetchReturn_KeepRolesOnError(i, ok) ==
  /\ i \in 1..Len(pending)
  /\ hookRoles' = IF ok THEN get_user_roles(pending[i]) ELSE hookRoles
  /\ hookError' = IF ok THEN hookError ELSE TRUE
  /\ pending' = RemoveAt(pending, i)
  /\ UNCHANGED <<auth_users, rmUsers, bmCalls, contentVars, umVars, callVars,
                 user, dbVars, rmVars, bmVars, lastOp>>

\* The RPC of an earlier fetchUserRoles() returns: its rows (ok) or an error.
FetchReturn(i, ok) ==
  /\ i \in 1..Len(pending)
  /\ hookRoles' = IF ok THEN get_user_roles(pending[i]) ELSE {}
  /\ hookError' = IF ok THEN hookError ELSE TRUE
  /\ pending' = RemoveAt(pending, i)
  /\ UNCHANGED <<auth_users, rmUsers, bmCalls, contentVars, umVars, callVars,
                 user, dbVars, rmVars, bmVars, lastOp>>

\* fetchUserRoles() awaited inside assignRole / removeRole, over the tables
\* the write left.
RefreshAfter(ur, ok) ==
  /\ hookRoles' = IF ok THEN RoleNamesOf(ur, roles, user) ELSE {}
  /\ hookError' = ~ok

assignRole(userId, roleName) ==
  LET res == AssignTxn(user, userId, roleName) IN
  /\ lastOp' = Op("assignRole", res.err, res.rows)
  /\ user_roles' = res.table
  /\ IF res.err = "none" /\ userId = user
     THEN \E ok \in BOOLEAN : RefreshAfter(res.table, ok)
     ELSE UNCHANGED <<hookRoles, hookError>>
  /\ UNCHANGED <<auth_users, rmUsers, bmCalls, contentVars, umVars,
                 assignCalls, roles, nextRoleId, admin_users, bookings, user, pending,
                 rmVars, bmVars>>
  /\ isAdminCall' = Observed

removeRole(userId, roleName) ==
  LET res == RemoveTxn(user, userId, roleName) IN
  /\ lastOp' = Op("removeRole", res.err, res.rows)
  /\ user_roles' = res.table
  /\ IF res.err = "none" /\ userId = user
     THEN \E ok \in BOOLEAN : RefreshAfter(res.table, ok)
     ELSE UNCHANGED <<hookRoles, hookError>>
  /\ UNCHANGED <<auth_users, rmUsers, bmCalls, contentVars, umVars,
                 assignCalls, roles, nextRoleId, admin_users, bookings, user, pending,
                 rmVars, bmVars>>
  /\ isAdminCall' = Observed

\* assignRole() await by await, so that calls overlap. The first await has
\* returned the role id: the call waits to send its INSERT. fresh records
\* whether the row was absent when the call looked the role up.
assignRoleLookup(userId, roleName) ==
  LET ids == SingleRoleId(user, roleName) IN
  /\ Len(assignCalls) < MaxCalls
  /\ IF Cardinality(ids) # 1
     THEN /\ lastOp' = Op("assignRole", "PGRST116", 0)
          /\ UNCHANGED assignCalls
     ELSE /\ assignCalls' =
               Append(assignCalls,
                      [caller |-> user, uid |-> userId,
                       rid |-> CHOOSE id \in ids : TRUE,
                       fresh |-> \A id \in ids :
                                   [user_id |-> userId, role_id |-> id] \notin user_roles])
          /\ UNCHANGED lastOp
  /\ UNCHANGED <<auth_users, rmUsers, bmCalls, dbVars, contentVars, hookVars,
                 rmVars, bmVars, umVars, isAdminCall>>

\* The second await of call i: the INSERT, sent with the session as it is
\* now, then the refresh when the call was for its caller's own roles.
assignRoleInsert(i) ==
  /\ i \in 1..Len(assignCalls)
  /\ LET call == assignCalls[i]
         res == InsertUserRole(user, call.uid, call.rid)
     IN /\ lastOp' = Op("assignRole", res.err, res.rows)
        /\ user_roles' = res.table
        /\ IF res.err = "none" /\ call.uid = call.caller
           THEN \E ok \in BOOLEAN : RefreshAfter(res.table, ok)
           ELSE UNCHANGED <<hookRoles, hookError>>
  /\ assignCalls' = RemoveAt(assignCalls, i)
  /\ UNCHANGED <<auth_users, rmUsers, bmCalls, roles, nextRoleId, admin_users,
                 bookings, contentVars, user,
                 pending, rmVars, bmVars, umVars>>
  /\ isAdminCall' = Observed

\* ------------------------------------------------------- RoleManagement
\* The rows of roles and of user_roles a SELECT by caller c returns: those the
\* SELECT policies (and the FOR ALL policies) show.
VisibleRoles(c) == {r \in roles : RolesReadPolicy(c) \/ RolesManagePolicy(c)}
VisibleUserRoles(c) ==
  {row \in user_roles : \/ UserRolesOwnReadPolicy(c, row)
                         \/ UserRolesAdminReadPolicy(c)
                         \/ UserRolesManagePolicy(c)}

\* user_roles.select('user_id, roles(name)') when the caller is shown the rows
\* vur of user_roles and the rows vr of roles: each row with the name of its
\* role (the empty set stands for null: the role row is not shown). The query
\* has no ORDER BY; the rows come by user id and role id.
JoinedUserRoles(vur, vr) ==
  LET before(a, b) == \/ a.user_id < b.user_id
                      \/ a.user_id = b.user_id /\ a.role_id < b.role_id
      nth(i) == CHOOSE r \in vur : Cardinality({x \in vur : before(x, r)}) = i - 1
  IN [i \in 1..Cardinality(vur) |->
        [user_id |-> nth(i).user_id,
         name |-> {r.name : r \in {x \in vr : x.id = nth(i).role_id}}]]

\* The keys of userRoleMap after the forEach, in the order they were set: an
\* item sets a key when no item before it has its user_id.
UserRoleMapKeys(data) ==
  LET first == {i \in 1..Len(data) :
                  \A j \in 1..(i - 1) : data[j].user_id # data[i].user_id}
      nth(k) == CHOOSE i \in first : Cardinality({j \in first : j < i}) = k - 1
  IN [k \in 1..Cardinality(first) |-> data[nth(k)].user_id]

\* userRoleMap.get(userId) after the forEach: the names pushed for userId, one
\* for each item that has this user_id and a role name.
UserRoleMapGet(data, userId) ==
  LET mine == SelectSeq(data, LAMBDA item : item.user_id = userId /\ item.name # {})
  IN [i \in 1..Len(mine) |-> CHOOSE n \in mine[i].name : TRUE]

\* The list fetchUsersWithRoles() hands to setUsers.
UsersWithRoles(data) ==
  LET userIds == UserRoleMapKeys(data)
  IN [k \in 1..Len(userIds) |->
        [id |-> userIds[k], roles |-> UserRoleMapGet(data, userIds[k])]]

\* fetchUsersWithRoles() by the signed-in caller.
fetchUsersWithRoles ==
  \E vur \in {VisibleUserRoles(user)}, vr \in {VisibleRoles(user)} :
    rmUsers' = UsersWithRoles(JoinedUserRoles(vur, vr))

\* The same once the handler's write is committed, when the write succeeded.
fetchUsersWithRolesAfter(err) ==
  IF err = "none"
  THEN \E vur \in {VisibleUserRoles(user)'}, vr \in {VisibleRoles(user)'} :
         rmUsers' = UsersWithRoles(JoinedUserRoles(vur, vr))
  ELSE rmUsers' = rmUsers

\* The component renders its controls only past its two early returns.
RMRendered == isSuperAdmin /\ ~rmLoading

\* The effect on [isSuperAdmin]: fetchData() when isSuperAdmin().
RMFetchData ==
  /\ isSuperAdmin
  /\ rmRoles' = {r \in roles : RolesReadPolicy(user)}
  /\ fetchUsersWithRoles
  /\ rmLoading' = FALSE
  /\ UNCHANGED <<auth_users, bmCalls, contentVars, umVars, callVars, dbVars,
                 hookVars, bmVars, lastOp>>

RMFind(roleName) == {r \in rmRoles : r.name = roleName}

handleAssignRole(userId, roleName) ==
  /\ RMRendered
  /\ IF RMFind(roleName) = {}
     THEN /\ lastOp' = Op("handleAssignRole", "returned", 0)
          /\ UNCHANGED user_roles
     ELSE LET role == CHOOSE r \in RMFind(roleName) : TRUE
              res == InsertUserRole(user, userId, role.id)
          IN /\ lastOp' = Op("handleAssignRole", res.err, res.rows)
             /\ user_roles' = res.table
  /\ UNCHANGED <<auth_users, bmCalls, contentVars, umVars, callVars, roles,
                 nextRoleId, admin_users, bookings, hookVars, rmVars, bmVars>>
  /\ fetchUsersWithRolesAfter(lastOp'.err)

handleRemoveRole(userId, roleName) ==
  /\ RMRendered
  /\ IF RMFind(roleName) = {}
     THEN /\ lastOp' = Op("handleRemoveRole", "returned", 0)
          /\ UNCHANGED user_roles
     ELSE LET role == CHOOSE r \in RMFind(roleName) : TRUE
              res == DeleteUserRole(user, userId, role.id)
          IN /\ lastOp' = Op("handleRemoveRole", res.err, res.rows)
             /\ user_roles' = res.table
  /\ UNCHANGED <<auth_users, bmCalls, contentVars, umVars, callVars, roles,
                 nextRoleId, admin_users, bookings, hookVars, rmVars, bmVars>>
  /\ fetchUsersWithRolesAfter(lastOp'.err)

\* ------------------------------------------------------ the role catalog
\* INSERT INTO roles (name) by the signed-in caller: the policy's WITH CHECK,
\* then UNIQUE(name).
CreateRole(name) ==
  /\ nextRoleId <= MaxRoleId
  /\ IF ~RolesManagePolicy(user)
     THEN /\ lastOp' = Op("createRole", "42501", 0)
          /\ UNCHANGED <<roles, nextRoleId>>
     ELSE IF RoleIdsNamed(name) # {}
     THEN /\ lastOp' = Op("createRole", "23505", 0)
          /\ UNCHANGED <<roles, nextRoleId>>
     ELSE /\ lastOp' = Op("createRole", "none", 1)
          /\ roles' = roles \cup {[id |-> nextRoleId, name |-> name]}
          /\ nextRoleId' = nextRoleId + 1
  /\ UNCHANGED <<auth_users, rmUsers, bmCalls, contentVars, umVars, callVars,
                 user_roles, admin_users, bookings, hookVars, rmVars, bmVars>>

\* Mutant: the role row goes and the rows that reference it stay.
DeleteRole_NoCascade(name) ==
  LET hit == {r \in roles : RolesManagePolicy(user) /\ r.name = name}
  IN /\ lastOp' = Op("deleteRole", "none", Cardinality(hit))
     /\ roles' = roles \ hit
     /\ UNCHANGED <<auth_users, rmUsers, bmCalls, contentVars, umVars, callVars,
                    nextRoleId, user_roles, admin_users, bookings, hookVars,
                    rmVars, bmVars>>

\* DELETE FROM roles WHERE name = name by the signed-in caller: the policy's
\* USING filters the rows; user_roles.role_id is ON DELETE CASCADE.
DeleteRole(name) ==
  LET seen == {r \in roles : RolesManagePolicy(user)}
      hit == {r \in seen : r.name = name}
      gone == {r.id : r \in hit}
  IN /\ lastOp' = Op("deleteRole", "none", Cardinality(hit))
     /\ roles' = roles \ hit
     /\ user_roles' = {ur \in user_roles : ur.role_id \notin gone}
     /\ UNCHANGED <<auth_users, rmUsers, bmCalls, contentVars, umVars,
                    callVars, nextRoleId, admin_users, bookings, hookVars, rmVars,
                    bmVars>>

\* DELETE FROM auth.users WHERE id = u, by the project's owner (no policy of
\* this script applies): user_roles.user_id is ON DELETE CASCADE. A session of
\* u that is open in the browser stays open.
DeleteIdentity(u) ==
  /\ u \in auth_users
  /\ auth_users' = auth_users \ {u}
  /\ user_roles' = {ur \in user_roles : ur.user_id # u}
  /\ lastOp' = Op("deleteIdentity", "none", 1)
  /\ UNCHANGED <<rmUsers, bmCalls, contentVars, umVars, callVars, roles,
                 nextRoleId, admin_users, bookings, hookVars, rmVars, bmVars>>

\* ---------------------------------------------------- bookings policies
\* Mutant: every authenticated caller may read bookings.
BookingsReadPolicy_Authenticated(c) == Authenticated(c)
\* bookings: "Admins can view all bookings"
BookingsReadPolicy(c) == Authenticated(c) /\ is_admin(c)
\* bookings: "Admins can update bookings"
BookingsUpdatePolicy(c) == Authenticated(c) /\ is_admin(c)
\* bookings: the script creates no policy FOR DELETE, so row-level security
\* shows a DELETE no row.
BookingsDeletePolicy(c) == FALSE

\* ---------------------------------------------------- BookingManagement
\* fetchBookings(): SELECT * FROM bookings, the rows the caller may read.
FetchedBookings(tbl) == {b \in tbl : BookingsReadPolicy(user)}

\* The mount effect.
BMFetchBookings ==
  /\ bmBookings' = FetchedBookings(bookings)
  /\ UNCHANGED <<auth_users, rmUsers, bmCalls, contentVars, umVars, callVars,
                 dbVars, hookVars, rmVars, actionLoading, lastOp>>

\* UPDATE bookings SET status = newStatus WHERE id = bookingId: a row the
\* policies hide is not updated, and that is not an error.
handleStatusUpdate(bookingId, newStatus) ==
  LET hit == {b \in bookings : /\ BookingsUpdatePolicy(user)
                                /\ BookingsReadPolicy(user)
                                /\ b.id = bookingId}
      after == (bookings \ hit) \cup {[b EXCEPT !.status = newStatus] : b \in hit}
  IN /\ bookings' = after
     /\ bmBookings' = FetchedBookings(after)
     /\ actionLoading' = 0
     /\ lastOp' = Op("handleStatusUpdate", "none", Cardinality(hit))
     /\ UNCHANGED <<auth_users, rmUsers, bmCalls, contentVars, umVars,
                    callVars, roles, nextRoleId, user_roles, admin_users,
                    hookVars, rmVars>>

\* DELETE FROM bookings WHERE id = bookingId, once the user has confirmed.
handleDeleteBooking(bookingId, confirmed) ==
  LET hit == {b \in bookings : /\ BookingsDeletePolicy(user)
                                /\ BookingsReadPolicy(user)
                                /\ b.id = bookingId}
      after == bookings \ hit
  IN IF ~confirmed
     THEN /\ lastOp' = Op("handleDeleteBooking", "returned", 0)
          /\ UNCHANGED <<auth_users, rmUsers, bmCalls, contentVars, umVars,
                         callVars, dbVars, hookVars, rmVars, bmVars>>
     ELSE /\ bookings' = after
          /\ bmBookings' = FetchedBookings(after)
          /\ actionLoading' = 0
          /\ lastOp' = Op("handleDeleteBooking", "none", Cardinality(hit))
          /\ UNCHANGED <<auth_users, rmUsers, bmCalls, contentVars, umVars,
                         callVars, roles, nextRoleId, user_roles, admin_users, hookVars,
                         rmVars>>

\* The handlers await by await, so that calls overlap. A call is [op, id,
\* status, pc, rows]: pc "write" while its UPDATE or DELETE is out, "fetch"
\* while the fetchBookings() that follows is out.
handleStatusUpdateBegin(bookingId, newStatus) ==
  /\ Len(bmCalls) < MaxCalls
  /\ actionLoading' = bookingId
  /\ bmCalls' = Append(bmCalls, [op |-> "handleStatusUpdate", id |-> bookingId,
                                 status |-> newStatus, pc |-> "write", rows |-> 0])
  /\ UNCHANGED <<auth_users, rmUsers, contentVars, umVars, callVars, dbVars,
                 hookVars, rmVars, bmBookings, lastOp>>

handleDeleteBookingBegin(bookingId, confirmed) ==
  /\ Len(bmCalls) < MaxCalls
  /\ IF ~confirmed
     THEN /\ lastOp' = Op("handleDeleteBooking", "returned", 0)
          /\ UNCHANGED <<actionLoading, bmCalls>>
     ELSE /\ actionLoading' = bookingId
          /\ bmCalls' = Append(bmCalls, [op |-> "handleDeleteBooking", id |-> bookingId,
                                         status |-> "none", pc |-> "write", rows |-> 0])
          /\ UNCHANGED lastOp
  /\ UNCHANGED <<auth_users, rmUsers, contentVars, umVars, callVars, dbVars,
                 hookVars, rmVars, bmBookings>>

\* The write of call i is done at the store, with the session as it is now,
\* and returns without error: the handler goes on to fetchBookings().
bookingWriteReturn(i) ==
  /\ i \in 1..Len(bmCalls) /\ bmCalls[i].pc = "write"
  /\ LET call == bmCalls[i]
         hit == {b \in bookings :
                   /\ IF call.op = "handleStatusUpdate"
                      THEN BookingsUpdatePolicy(user) ELSE BookingsDeletePolicy(user)
                   /\ BookingsReadPolicy(user)
                   /\ b.id = call.id}
     IN /\ bookings' = IF call.op = "handleStatusUpdate"
                       THEN (bookings \ hit)
                              \cup {[b EXCEPT !.status = call.status] : b \in hit}
                       ELSE bookings \ hit
        /\ bmCalls' = [bmCalls EXCEPT ![i].pc = "fetch",
                                      ![i].rows = Cardinality(hit)]
  /\ UNCHANGED <<auth_users, rmUsers, contentVars, umVars, callVars, roles,
                 nextRoleId, user_roles, admin_users, hookVars, rmVars, bmVars,
                 lastOp>>

\* fetchBookings() of call i returns: setBookings, the alert, and the finally
\* block's setActionLoading(null).
bookingFetchReturn(i) ==
  /\ i \in 1..Len(bmCalls) /\ bmCalls[i].pc = "fetch"
  /\ bmBookings' = FetchedBookings(bookings)
  /\ lastOp' = Op(bmCalls[i].op, "none", bmCalls[i].rows)
  /\ actionLoading' = 0
  /\ bmCalls' = RemoveAt(bmCalls, i)
  /\ UNCHANGED <<auth_users, rmUsers, contentVars, umVars, callVars, dbVars,
                 hookVars, rmVars>>

\* ------------------------------------ yoga_queries, contact_messages, articles
\* yoga_queries: "Admins can view all yoga queries"
YogaQueriesReadPolicy(c) == Authenticated(c) /\ is_admin(c)
\* yoga_queries: "Admins can update yoga queries"
\* Mutant: the policy of the same name this script drops, over admin_users only.
YogaQueriesUpdatePolicy_Legacy(c) == Authenticated(c) /\ LegacyAdmin(c)
YogaQueriesUpdatePolicy(c) == Authenticated(c) /\ is_admin(c)
\* contact_messages: "Admins can view all contact messages"
ContactMessagesReadPolicy(c) == Authenticated(c) /\ is_admin(c)
\* contact_messages: "Admins can update contact messages"
ContactMessagesUpdatePolicy(c) == Authenticated(c) /\ is_admin(c)
\* articles: "Content creators can manage articles", FOR ALL
ArticlesPolicy(c) == Authenticated(c) /\ (has_role(c, "mantra_curator") \/ is_admin(c))

\* The statements the signed-in caller sends to these tables. A SELECT returns
\* the rows its policy shows; an UPDATE or DELETE changes the rows both its
\* own policy and the SELECT policy show, and a hidden row is not an error; an
\* INSERT the WITH CHECK refuses raises 42501.
SelectYogaQueries ==
  /\ lastOp' = Op("selectYogaQueries", "none",
                  Cardinality({q \in yoga_queries : YogaQueriesReadPolicy(user)}))
  /\ UNCHANGED <<auth_users, rmUsers, bmCalls, dbVars, contentVars, hookVars,
                 rmVars, bmVars, umVars, callVars>>

UpdateYogaQuery(id, status) ==
  LET hit == {q \in yoga_queries : /\ YogaQueriesUpdatePolicy(user)
                                    /\ YogaQueriesReadPolicy(user)
                                    /\ q.id = id}
  IN /\ yoga_queries' = (yoga_queries \ hit)
                           \cup {[q EXCEPT !.status = status] : q \in hit}
     /\ lastOp' = Op("updateYogaQuery", "none", Cardinality(hit))
     /\ UNCHANGED <<auth_users, rmUsers, bmCalls, dbVars, contact_messages,
                    articles, hookVars, rmVars, bmVars,
                    umVars, callVars>>

SelectContactMessages ==
  /\ lastOp' = Op("selectContactMessages", "none",
                  Cardinality({m \in contact_messages : ContactMessagesReadPolicy(user)}))
  /\ UNCHANGED <<auth_users, rmUsers, bmCalls, dbVars, contentVars, hookVars,
                 rmVars, bmVars, umVars, callVars>>

UpdateContactMessage(id, status) ==
  LET hit == {m \in contact_messages : /\ ContactMessagesUpdatePolicy(user)
                                        /\ ContactMessagesReadPolicy(user)
                                        /\ m.id = id}
  IN /\ contact_messages' = (contact_messages \ hit)
                               \cup {[m EXCEPT !.status = status] : m \in hit}
     /\ lastOp' = Op("updateContactMessage", "none", Cardinality(hit))
     /\ UNCHANGED <<auth_users, rmUsers, bmCalls, dbVars, yoga_queries,
                    articles, hookVars, rmVars, bmVars,
                    umVars, callVars>>

SelectArticles ==
  /\ lastOp' = Op("selectArticles", "none",
                  Cardinality({x \in articles : ArticlesPolicy(user)}))
  /\ UNCHANGED <<auth_users, rmUsers, bmCalls, dbVars, contentVars, hookVars,
                 rmVars, bmVars, umVars, callVars>>

InsertArticle(id) ==
  /\ IF ~ArticlesPolicy(user)
     THEN /\ lastOp' = Op("insertArticle", "42501", 0)
          /\ UNCHANGED articles
     ELSE IF \E x \in articles : x.id = id
     THEN /\ lastOp' = Op("insertArticle", "23505", 0)
          /\ UNCHANGED articles
     ELSE /\ lastOp' = Op("insertArticle", "none", 1)
          /\ articles' = articles \cup {[id |-> id, status |-> "draft"]}
  /\ UNCHANGED <<auth_users, rmUsers, bmCalls, dbVars, yoga_queries,
                 contact_messages, hookVars, rmVars, bmVars,
                 umVars, callVars>>

UpdateArticle(id, status) ==
  LET hit == {x \in articles : ArticlesPolicy(user) /\ x.id = id}
  IN /\ articles' = (articles \ hit) \cup {[x EXCEPT !.status = status] : x \in hit}
     /\ lastOp' = Op("updateArticle", "none", Cardinality(hit))
     /\ UNCHANGED <<auth_users, rmUsers, bmCalls, dbVars, yoga_queries,
                    contact_messages, hookVars, rmVars,
                    bmVars, umVars, callVars>>

DeleteArticle(id) ==
  LET hit == {x \in articles : ArticlesPolicy(user) /\ x.id = id}
  IN /\ articles' = articles \ hit
     /\ lastOp' = Op("deleteArticle", "none", Cardinality(hit))
     /\ UNCHANGED <<auth_users, rmUsers, bmCalls, dbVars, yoga_queries,
                    contact_messages, hookVars, rmVars,
                    bmVars, umVars, callVars>>

\* SELECT on roles and on user_roles by the signed-in caller.

SelectRoles ==
  /\ lastOp' = Op("selectRoles", "none", Cardinality(VisibleRoles(user)))
  /\ UNCHANGED <<auth_users, rmUsers, bmCalls, dbVars, contentVars, hookVars,
                 rmVars, bmVars, umVars, callVars>>

SelectUserRoles ==
  /\ lastOp' = Op("selectUserRoles", "none", Cardinality(VisibleUserRoles(user)))
  /\ UNCHANGED <<auth_users, rmUsers, bmCalls, dbVars, contentVars, hookVars,
                 rmVars, bmVars, umVars, callVars>>

\* ---------------------------------------------------------- UserManagement
\* The table admin_users and its access rules are created outside this
\* schema script: whether the store lets the caller's statement on admin_users
\* through is an input of each operation (granted).

\* fetchUsersFromBookings(): the emails of the bookings and yoga queries the
\* caller is shown, each marked is_admin when admin_users lists the email.
FetchedUsers(au, granted) ==
  LET adminEmails == IF granted THEN {x.email : x \in au} ELSE {}
      seen == {b.email : b \in {x \in bookings : BookingsReadPolicy(user)}}
                \cup {q.email : q \in {x \in yoga_queries : YogaQueriesReadPolicy(user)}}
  IN {[email |-> e, is_admin |-> e \in adminEmails] : e \in seen}

\* The mount effect: fetchUsers().
UMFetchUsers(granted) ==
  /\ umUsers' = FetchedUsers(admin_users, granted)
  /\ UNCHANGED <<auth_users, rmUsers, bmCalls, dbVars, contentVars, hookVars,
                 rmVars, bmVars, callVars, lastOp>>

\* "Make Admin" on a listed user that is not marked is_admin.
handleMakeAdmin(userEmail, granted) ==
  /\ \E u \in umUsers : u.email = userEmail /\ ~u.is_admin
  /\ IF ~granted
     THEN /\ lastOp' = Op("handleMakeAdmin", "42501", 0)
          /\ UNCHANGED <<admin_users, umUsers>>
     ELSE LET after == admin_users \cup {[email |-> userEmail, role |-> "admin"]}
          IN /\ admin_users' = after
             /\ umUsers' = FetchedUsers(after, granted)
             /\ lastOp' = Op("handleMakeAdmin", "none", 1)
  /\ UNCHANGED <<auth_users, rmUsers, bmCalls, roles, nextRoleId, user_roles,
                 bookings, contentVars, hookVars,
                 rmVars, bmVars, assignCalls>>
  /\ isAdminCall' = Observed

\* "Remove Admin" on a listed user marked is_admin, once confirmed: DELETE
\* FROM admin_users WHERE email = userEmail.
handleRemoveAdmin(userEmail, confirmed, granted) ==
  /\ \E u \in umUsers : u.email = userEmail /\ u.is_admin
  /\ IF ~confirmed
     THEN /\ lastOp' = Op("handleRemoveAdmin", "returned", 0)
          /\ UNCHANGED <<admin_users, umUsers>>
     ELSE LET hit == {x \in admin_users : granted /\ x.email = userEmail}
          IN /\ admin_users' = admin_users \ hit
             /\ umUsers' = FetchedUsers(admin_users \ hit, granted)
             /\ lastOp' = Op("handleRemoveAdmin", "none", Cardinality(hit))
  /\ UNCHANGED <<auth_users, rmUsers, bmCalls, roles, nextRoleId, user_roles,
                 bookings, contentVars, hookVars,
                 rmVars, bmVars, assignCalls>>
  /\ isAdminCall' = Observed

\* ------------------------------------------------------------------- Next
Next ==
  \/ \E u \in Users : SignIn(u)
  \/ SignOut
  \/ \E i \in 1..MaxPending, ok \in BOOLEAN : FetchReturn(i, ok)
  \/ \E u \in Users, n \in AssignNames : assignRole(u, n)
  \/ \E u \in Users, n \in AssignNames : removeRole(u, n)
  \/ \E n \in CatalogNames : CreateRole(n)
  \/ \E n \in CatalogNames : DeleteRole(n)

Spec == Init /\ [][Next]_vars

\* The same store and browser with the RoleManagement screen at work in place
\* of direct calls of the hook's assignRole and removeRole.
NextRoleManagement ==
  \/ \E u \in Users : SignIn(u)
  \/ SignOut
  \/ \E i \in 1..MaxPending, ok \in BOOLEAN : FetchReturn(i, ok)
  \/ RMFetchData
  \/ \E u \in Users, n \in AssignNames : handleAssignRole(u, n)
  \/ \E u \in Users, n \in AssignNames : handleRemoveRole(u, n)
  \/ \E n \in CatalogNames : CreateRole(n)
  \/ \E n \in CatalogNames : DeleteRole(n)

SpecRoleManagement == Init /\ [][NextRoleManagement]_vars

\* ===================================================================== C1
\* C1: every step that changes roles or user_roles through the policy layer is
\* taken by a caller for whom can_manage_roles() holds when the step starts; a
\* step of any other caller leaves both tables as they were.
C1_OnlySuperAdminWrites ==
  [][(user_roles' # user_roles \/ roles' # roles) => can_manage_roles(user)]_vars

\* An admin-equivalent caller without super_admin tried to assign and was refused.
C1_Witness ==
  /\ lastOp.op = "assignRole" /\ lastOp.err = "42501"
  /\ is_admin(user) /\ ~can_manage_roles(user)

\* ===================================================================== C2
\* The role names of the Assignment rows of c, and the roles of the legacy
\* entries with c's email, read off the tables.
AssignedNames(c) ==
  {r.name : r \in {x \in roles : [user_id |-> c, role_id |-> x.id] \in user_roles}}
LegacyRoles(c) == {a.role : a \in {x \in admin_users : x.email = Email(c)}}

\* C2: is_admin() is true for a caller exactly when the caller holds an
\* Assignment to admin or super_admin, or the legacy list has an entry with the
\* caller's email and role admin or super_admin.
C2_IsAdminIffAssignedOrLegacy ==
  \A c \in Users :
     is_admin(c) <=> \/ AssignedNames(c) \cap {"admin", "super_admin"} # {}
                     \/ LegacyRoles(c) \cap {"admin", "super_admin"} # {}

\* One caller is admin by an Assignment alone, another by the legacy list alone.
C2_Witness ==
  \E c, d \in Users :
     /\ is_admin(c) /\ LegacyRoles(c) = {} /\ AssignedNames(c) # {}
     /\ is_admin(d) /\ AssignedNames(d) = {} /\ LegacyRoles(d) # {}

\* ===================================================================== C3
\* C3: for the signed-in identity, once its roles are resolved, a legacy entry
\* with role admin and no Assignment row make isAdmin() true in the database
\* (is_admin) and in the hook (isAdmin).
C3_LegacyAdminInEveryEvaluator ==
  ( /\ user \in Users /\ pending = <<>> /\ ~hookError
    /\ "admin" \in LegacyRoles(user)
    /\ AssignedNames(user) = {} )
  => (is_admin(user) /\ isAdmin)

\* ===================================================================== C4
\* The evaluators over every role set: one caller holds any subset of the
\* eight seeded roles and any legacy entries; the browser signs in and out
\* and resolves roles over that store.
EvalCaller == 1
InitEval ==
  /\ auth_users = Users
  /\ roles = SeedRoles
  /\ nextRoleId = NumSeedRoles + 1
  /\ admin_users \in SUBSET {[email |-> Email(EvalCaller), role |-> r] :
                                r \in {"admin", "super_admin"}}
  /\ user_roles \in {{[user_id |-> EvalCaller, role_id |-> i] : i \in held} :
                        held \in SUBSET (1..NumSeedRoles)}
  /\ bookings = InitialBookings
  /\ InitContent
  /\ InitBrowser

NextEval ==
  \/ \E u \in Users : SignIn(u)
  \/ SignOut
  \/ \E i \in 1..MaxPending, ok \in BOOLEAN : FetchReturn(i, ok)

SpecEval == InitEval /\ [][NextEval]_vars

\* The hook has just resolved the roles of the signed-in user.
ResolvedForUser ==
  \E i \in 1..Len(pending) : pending[i] = user /\ FetchReturn(i, TRUE)

\* C4: can_manage_roles() is true for a caller exactly when the caller's
\* Assignment rows include super_admin, whatever else the caller holds and
\* whatever the legacy list says; and isSuperAdmin() of the hook, once it has
\* resolved the signed-in user's roles, answers the same.
C4_CanManageRolesIffSuperAdmin ==
  /\ [](\A c \in Users :
          can_manage_roles(c) <=> "super_admin" \in AssignedNames(c))
  /\ [][ResolvedForUser =>
          (isSuperAdmin' <=> "super_admin" \in AssignedNames(user))]_vars

\* The caller holds the seven other roles and a legacy super_admin entry, and
\* neither evaluator lets it manage roles.
C4_Witness ==
  /\ user = EvalCaller /\ pending = <<>>
  /\ AssignedNames(user) = {RoleNames[i] : i \in 2..NumSeedRoles}
  /\ hookRoles = AssignedNames(user)
  /\ "super_admin" \in LegacyRoles(user)
  /\ ~can_manage_roles(user) /\ ~isSuperAdmin

\* ================================================================ C5 .. C9
\* A step of one of the two assign (revoke) entry points with these arguments.
AssignStep(I, R) ==
  \/ lastOp'.op = "assignRole" /\ assignRole(I, R)
  \/ lastOp'.op = "handleAssignRole" /\ handleAssignRole(I, R)
RevokeStep(I, R) ==
  \/ lastOp'.op = "removeRole" /\ removeRole(I, R)
  \/ lastOp'.op = "handleRemoveRole" /\ handleRemoveRole(I, R)
Reported(e) == lastOp'.err = e
Known(R) == RoleIdsNamed(R) # {}

\* C5: after an assign(I,R) by a signed-in caller that reported success
\* rolesFor(I) contains R, and after a revoke(I,R) by a signed-in caller that
\* reported success rolesFor(I) does not contain R.
C5_AssignThenRevoke ==
  [][\A I \in Users, R \in AssignNames :
       /\ (AssignStep(I, R) /\ user \in Users /\ Reported("none"))
            => R \in get_user_roles(I)'
       /\ (RevokeStep(I, R) /\ user \in Users /\ Reported("none"))
            => R \notin get_user_roles(I)'
    ]_vars

\* C6: assign(I,R) by a caller who may manage roles, when I already holds R,
\* reports success and leaves user_roles as it was.
C6_AssignIdempotent ==
  [][\A I \in Users, R \in AssignNames :
       (AssignStep(I, R) /\ can_manage_roles(user) /\ R \in get_user_roles(I))
         => (Reported("none") /\ user_roles' = user_roles)
    ]_vars

\* C7: revoke(I,R) of a role R of the catalog that I does not hold raises no
\* error and leaves user_roles as it was.
C7_RevokeIdempotent ==
  [][\A I \in Users, R \in AssignNames :
       (RevokeStep(I, R) /\ Known(R) /\ R \notin get_user_roles(I))
         => (lastOp'.err \in {"none", "returned"} /\ user_roles' = user_roles)
    ]_vars

\* A caller who may manage roles revoked a role of the catalog that its
\* holder-to-be did not hold: the delete saw every row, changed none, and
\* success was reported.
C7_Witness ==
  /\ lastOp = Op("removeRole", "none", 0)
  /\ can_manage_roles(user)

C9_UnauthorizedSurfaced ==
  [][\A I \in Users, R \in AssignNames :
       ( /\ AssignStep(I, R) \/ RevokeStep(I, R)
         /\ user \in Users /\ ~can_manage_roles(user) )
         => ~Reported("none")
    ]_vars

\* ==================================================================== C10
\* BookingManagement over the store the schema script leaves.
NewStatuses == {"confirmed", "completed", "cancelled"}
BookingIds == 1..MaxBookings

NextBookings ==
  \/ \E u \in Users : SignIn(u)
  \/ SignOut
  \/ \E i \in 1..MaxPending, ok \in BOOLEAN : FetchReturn(i, ok)
  \/ BMFetchBookings
  \/ \E b \in BookingIds, st \in NewStatuses : handleStatusUpdate(b, st)
  \/ \E b \in BookingIds, cf \in BOOLEAN : handleDeleteBooking(b, cf)

SpecBookings == Init /\ [][NextBookings]_vars

HasBooking(b) == \E r \in bookings : r.id = b

\* C10: a status update or a confirmed delete issued by BookingManagement
\* changes bookings only for a caller with is_admin(), and for such a caller it
\* does what was asked: the booking has the new status, or is gone.
C10_BookingWriteIffAdmin ==
  [][/\ \A b \in BookingIds, st \in NewStatuses :
          (lastOp'.op = "handleStatusUpdate" /\ handleStatusUpdate(b, st)) =>
             /\ bookings' # bookings => is_admin(user)
             /\ (is_admin(user) /\ HasBooking(b))
                  => \E r \in bookings' : r.id = b /\ r.status = st
     /\ \A b \in BookingIds :
          (lastOp'.op = "handleDeleteBooking" /\ handleDeleteBooking(b, TRUE)) =>
             /\ bookings' # bookings => is_admin(user)
             /\ (is_admin(user) /\ HasBooking(b)) => ~HasBooking(b)'
    ]_vars

\* ============================================================ C11 .. C14
\* The policies over every kind of caller: user 1 holds any subset of
\* super_admin, admin and mantra_curator and may have a legacy entry, user 2
\* has neither; the signed-in caller sends statements to every table.
PolicyCaller == 1
PolicyRoleNames == {"super_admin", "admin", "mantra_curator"}
QueryStatuses == {"responded"}
MessageStatuses == {"read"}
ArticleStatuses == {"published"}
ArticleIds == 1..MaxArticles

InitPolicies ==
  /\ auth_users = Users
  /\ roles = SeedRoles
  /\ nextRoleId = NumSeedRoles + 1
  /\ admin_users \in SUBSET {[email |-> Email(PolicyCaller), role |-> "admin"]}
  /\ user_roles \in
       {{[user_id |-> PolicyCaller, role_id |-> RoleIdIn(SeedRoles, n)] : n \in held}
          : held \in SUBSET PolicyRoleNames}
  /\ bookings = InitialBookings
  /\ InitContent
  /\ InitBrowser

NextPolicies ==
  \/ \E u \in Users : SignIn(u)
  \/ SignOut
  \/ \E i \in 1..MaxPending, ok \in BOOLEAN : FetchReturn(i, ok)
  \/ SelectYogaQueries
  \/ \E st \in QueryStatuses : UpdateYogaQuery(1, st)
  \/ SelectContactMessages
  \/ \E st \in MessageStatuses : UpdateContactMessage(1, st)
  \/ SelectArticles
  \/ \E id \in ArticleIds : InsertArticle(id)
  \/ \E id \in ArticleIds, st \in ArticleStatuses : UpdateArticle(id, st)
  \/ \E id \in ArticleIds : DeleteArticle(id)
  \/ SelectRoles
  \/ SelectUserRoles

SpecPolicies == InitPolicies /\ [][NextPolicies]_vars

\* C11: a SELECT of yoga_queries or contact_messages returns every row when
\* is_admin() is true for the caller and no row otherwise; an UPDATE sets the
\* status of the row when is_admin() is true and changes nothing otherwise.
C11_AdminPoliciesIffIsAdmin ==
  [][/\ SelectYogaQueries =>
          lastOp'.rows = IF is_admin(user) THEN Cardinality(yoga_queries) ELSE 0
     /\ SelectContactMessages =>
          lastOp'.rows = IF is_admin(user) THEN Cardinality(contact_messages) ELSE 0
     /\ \A st \in QueryStatuses : UpdateYogaQuery(1, st) =>
          IF is_admin(user)
          THEN \A q \in yoga_queries : q.id = 1 => [q EXCEPT !.status = st] \in yoga_queries'
          ELSE yoga_queries' = yoga_queries
     /\ \A st \in MessageStatuses : UpdateContactMessage(1, st) =>
          IF is_admin(user)
          THEN \A m \in contact_messages :
                   m.id = 1 => [m EXCEPT !.status = st] \in contact_messages'
          ELSE contact_messages' = contact_messages
    ]_vars

\* A caller with an assigned admin role and no legacy entry has updated a
\* yoga query, and a caller with neither has been shown no contact message.
C11_Witness ==
  /\ lastOp = Op("updateYogaQuery", "none", 1)
  /\ user \in Users /\ ~LegacyAdmin(user) /\ is_admin(user)
  /\ \E q \in yoga_queries : q.status = "responded"

\* ==================================================================== C12
\* Content and the role tables for callers without super_admin: user 1 holds
\* any subset of admin, mantra_curator and yogi_in_training.
ContentRoleNames == {"admin", "mantra_curator", "yogi_in_training"}

InitContentRoles ==
  /\ auth_users = Users
  /\ roles = SeedRoles
  /\ nextRoleId = NumSeedRoles + 1
  /\ admin_users \in SUBSET {[email |-> Email(PolicyCaller), role |-> "admin"]}
  /\ user_roles \in
       {{[user_id |-> PolicyCaller, role_id |-> RoleIdIn(SeedRoles, n)] : n \in held}
          : held \in SUBSET ContentRoleNames}
  /\ bookings = InitialBookings
  /\ InitContent
  /\ InitBrowser

NextContent ==
  \/ \E u \in Users : SignIn(u)
  \/ SignOut
  \/ \E i \in 1..MaxPending, ok \in BOOLEAN : FetchReturn(i, ok)
  \/ SelectArticles
  \/ \E id \in ArticleIds : InsertArticle(id)
  \/ \E id \in ArticleIds, st \in ArticleStatuses : UpdateArticle(id, st)
  \/ \E id \in ArticleIds : DeleteArticle(id)
  \/ \E u \in Users, n \in AssignNames : assignRole(u, n)
  \/ \E u \in Users, n \in AssignNames : removeRole(u, n)
  \/ \E n \in CatalogNames : CreateRole(n)
  \/ \E n \in CatalogNames : DeleteRole(n)

SpecContent == InitContentRoles /\ [][NextContent]_vars

MantraCuratorOnly ==
  user \in Users /\ AssignedNames(user) = {"mantra_curator"} /\ LegacyRoles(user) = {}
MayWriteContent == user \in Users /\ (has_role(user, "mantra_curator") \/ is_admin(user))

\* What an article statement does when it is allowed.
ArticleWriteDone ==
  /\ \A id \in ArticleIds : (lastOp'.op = "insertArticle" /\ InsertArticle(id)) =>
        \E x \in articles' : x.id = id
  /\ \A id \in ArticleIds, st \in ArticleStatuses :
        (lastOp'.op = "updateArticle" /\ UpdateArticle(id, st)) =>
           \A x \in articles : x.id = id => [x EXCEPT !.status = st] \in articles'
  /\ \A id \in ArticleIds : (lastOp'.op = "deleteArticle" /\ DeleteArticle(id)) =>
        \A x \in articles' : x.id # id
  /\ SelectArticles => lastOp'.rows = Cardinality(articles)

\* A statement on roles or user_roles about a role of the catalog.
RoleWriteStep ==
  \/ \E u \in Users, n \in AssignNames : Known(n) /\ AssignStep(u, n)
  \/ \E u \in Users, n \in AssignNames : Known(n) /\ RevokeStep(u, n)
  \/ \E n \in CatalogNames : lastOp'.op = "createRole" /\ CreateRole(n)

\* C12: a caller whose only role is mantra_curator, with no legacy entry,
\* writes and reads articles, and each of its writes to roles or user_roles
\* changes nothing and is answered with the authorization error; articles
\* change exactly for callers with has_role('mantra_curator') or is_admin().
C12_MantraCuratorContentOnly ==
  [][/\ articles' # articles => MayWriteContent
     /\ MayWriteContent => ArticleWriteDone
     /\ (MantraCuratorOnly /\ RoleWriteStep) =>
          /\ roles' = roles /\ user_roles' = user_roles
          /\ lastOp'.err = "42501"
    ]_vars

\* ==================================================================== C13
\* An identity with no Assignment row and no legacy entry.
NoRolesNoLegacy(c) == c \in Users /\ AssignedNames(c) = {} /\ LegacyRoles(c) = {}

\* C13: for an identity with no Assignment row and no legacy entry is_admin()
\* and has_role('yogi_in_training') are false and the admin policy shows it
\* no booking; its status updates and deletes change no booking and its
\* fetch of the bookings returns none.
C13_NoRolesNoAccess ==
  /\ [](\A c \in Users : NoRolesNoLegacy(c) =>
           /\ ~is_admin(c)
           /\ ~has_role(c, "yogi_in_training")
           /\ ~BookingsReadPolicy(c))
  /\ [][NoRolesNoLegacy(user) =>
          /\ \A b \in BookingIds, st \in NewStatuses :
                handleStatusUpdate(b, st) => bookings' = bookings
          /\ \A b \in BookingIds : handleDeleteBooking(b, TRUE) => bookings' = bookings
          /\ BMFetchBookings => bmBookings' = {}
      ]_vars

C13_Witness ==
  /\ NoRolesNoLegacy(user)
  /\ lastOp = Op("handleStatusUpdate", "none", 0)
  /\ bmBookings = {}
  /\ bookings = InitialBookings

\* ==================================================================== C14
\* C14: a SELECT of roles and a SELECT of user_roles by an authenticated
\* caller return every row of the table, whatever the caller's roles, and
\* the two tables change only for a caller with can_manage_roles().
C14_RoleTablesReadByAll ==
  [][/\ (user \in Users /\ SelectRoles) => lastOp'.rows = Cardinality(roles)
     /\ (user \in Users /\ SelectUserRoles) => lastOp'.rows = Cardinality(user_roles)
     /\ (user_roles' # user_roles \/ roles' # roles) => can_manage_roles(user)
    ]_vars

\* ==================================================================== C15
\* The migration block over any admin list: entries for the two identities
\* and for an email no identity has, over assignments made before it runs.
OrphanEmail == Emails[MaxUsers + 1]
MigrationEntries ==
  {[email |-> e, role |-> r] : e \in {Email(1), Email(2), OrphanEmail},
                               r \in {"admin", "super_admin"}}
    \cup {[email |-> Email(2), role |-> "moderator"]}
EarlierAssignments ==
  {[user_id |-> 1, role_id |-> RoleIdIn(SeedRoles, "admin")],
   [user_id |-> 2, role_id |-> RoleIdIn(SeedRoles, "yogi_in_training")]}

InitMigration ==
  /\ auth_users = Users
  /\ roles = SeedRoles
  /\ nextRoleId = NumSeedRoles + 1
  /\ admin_users \in SUBSET MigrationEntries
  /\ user_roles \in SUBSET EarlierAssignments
  /\ bookings = InitialBookings
  /\ InitContent
  /\ InitBrowser

NextMigration ==
  \/ Migrate
  \/ \E u \in Users : SignIn(u)
  \/ SignOut
  \/ \E i \in 1..MaxPending, ok \in BOOLEAN : FetchReturn(i, ok)

SpecMigration == InitMigration /\ [][NextMigration]_vars

\* Every legacy entry with role admin or super_admin whose email an identity
\* has belongs to an identity holding the admin or super_admin Assignment.
FullyMigrated ==
  \A a \in admin_users : a.role \in {"admin", "super_admin"} =>
     \A u \in UserIdByEmail(a.email) :
        AssignedNames(u) \cap {"admin", "super_admin"} # {}

\* C15: in a fully migrated store is_admin() and is_admin() without the
\* fallback agree for every identity, and the migration block leaves the
\* store fully migrated.
C15_MigrationCompleteness ==
  /\ [](FullyMigrated =>
          \A c \in Users : is_admin(c) <=> is_admin_NoFallback(c))
  /\ [][Migrate => FullyMigrated']_vars

\* The block has run over a list with an admin entry of an identity and an
\* entry of an email no identity has.
C15_Witness ==
  /\ lastOp.op = "migrate"
  /\ FullyMigrated
  /\ [email |-> Email(2), role |-> "admin"] \in admin_users
  /\ [email |-> OrphanEmail, role |-> "admin"] \in admin_users
  /\ is_admin_NoFallback(2)

\* ==================================================================== C16
\* A step in which a get_user_roles call of the hook returns an error: the
\* call of the effect, or the refresh inside assignRole / removeRole.
FetchFailed ==
  \/ \E i \in 1..Len(pending) : FetchReturn(i, FALSE)
  \/ /\ lastOp'.op \in {"assignRole", "removeRole"} /\ lastOp'.err = "none"
     /\ hookError'
     /\ \E n \in AssignNames : assignRole(user, n) \/ removeRole(user, n)

\* C16: after a get_user_roles call of the hook has failed the hook holds
\* the empty role set: hasRole, hasAnyRole, isAdmin and isSuperAdmin are false.
C16_FailClosed ==
  [][FetchFailed =>
       /\ hookRoles' = {}
       /\ ~isAdmin' /\ ~isSuperAdmin'
       /\ \A i \in 1..NumSeedRoles : ~hasRole(RoleNames[i])'
       /\ ~hasAnyRole({RoleNames[i] : i \in 1..NumSeedRoles})'
    ]_vars

\* The refresh after an assignment to oneself has failed while the store
\* holds roles for the signed-in identity.
C16_Witness ==
  /\ hookError /\ hookRoles = {}
  /\ user \in Users /\ get_user_roles(user) # {}
  /\ lastOp = Op("assignRole", "none", 1)

\* ==================================================================== C20
\* UserManagement over the store the schema script leaves.
NextUsers ==
  \/ \E u \in Users : SignIn(u)
  \/ SignOut
  \/ \E i \in 1..MaxPending, ok \in BOOLEAN : FetchReturn(i, ok)
  \/ \E g \in BOOLEAN : UMFetchUsers(g)
  \/ \E u \in Users, g \in BOOLEAN : handleMakeAdmin(Email(u), g)
  \/ \E u \in Users, cf \in BOOLEAN, g \in BOOLEAN : handleRemoveAdmin(Email(u), cf, g)

SpecUsers == Init /\ [][NextUsers]_vars

\* C20: no operation changes admin_users.
C20_LegacyListReadOnly == [][admin_users' = admin_users]_vars

\* ==================================================================== C17
\* is_admin() calls running while the signed-in user assigns and revokes the
\* admin role and edits the admin list.
SnapshotNames == {"admin"}

NextSnapshot ==
  \/ \E u \in Users : SignIn(u)
  \/ SignOut
  \/ \E i \in 1..MaxPending, ok \in BOOLEAN : FetchReturn(i, ok)
  \/ \E u \in Users, n \in SnapshotNames : assignRole(u, n)
  \/ \E u \in Users, n \in SnapshotNames : removeRole(u, n)
  \/ \E g \in BOOLEAN : UMFetchUsers(g)
  \/ \E u \in Users, g \in BOOLEAN : handleMakeAdmin(Email(u), g)
  \/ \E u \in Users, cf \in BOOLEAN, g \in BOOLEAN : handleRemoveAdmin(Email(u), cf, g)
  \/ \E c \in Users : IsAdminBegin(c)
  \/ IsAdminFallback

SpecSnapshot == Init /\ [][NextSnapshot]_vars

\* C17: the value an is_admin() call returns is the value is_admin() has on
\* one of the states of the store committed while the call ran.
C17_DecisionOnOneSnapshot ==
  isAdminCall.pc = "done" => isAdminCall.result \in isAdminCall.seen

\* ==================================================================== C18
\* Overlapping assignRole calls beside revokes and a re-run of the schema
\* script's migration block.
NextConcurrent ==
  \/ \E u \in Users : SignIn(u)
  \/ SignOut
  \/ \E i \in 1..MaxPending, ok \in BOOLEAN : FetchReturn(i, ok)
  \/ \E u \in Users, n \in SnapshotNames : assignRoleLookup(u, n)
  \/ \E i \in 1..MaxCalls : assignRoleInsert(i)
  \/ \E u \in Users, n \in SnapshotNames : removeRole(u, n)
  \/ Migrate

SpecConcurrent == Init /\ [][NextConcurrent]_vars

\* C18: user_roles holds at most one row per (user_id, role_id), and the
\* INSERT of an assign call by a caller with can_manage_roles(), whose row
\* was absent when the call began and has been inserted meanwhile, reports
\* success and leaves user_roles as it is.
C18_DuplicateAssignIsNoOp ==
  /\ [](Cardinality(user_roles)
          = Cardinality({<<ur.user_id, ur.role_id>> : ur \in user_roles}))
  /\ [][\A i \in 1..Len(assignCalls) :
          (/\ lastOp'.op = "assignRole" /\ assignRoleInsert(i)
           /\ can_manage_roles(user)
           /\ assignCalls[i].fresh
           /\ [user_id |-> assignCalls[i].uid, role_id |-> assignCalls[i].rid]
                 \in user_roles)
          => lastOp'.err = "none" /\ user_roles' = user_roles
      ]_vars

\* ==================================================================== C19
\* C19: when no fetch of the hook is in flight, every role the hook answers
\* true for is a role the signed-in identity holds in user_roles now.
C19_NoStaleRoleSet ==
  (user \in Users /\ pending = <<>>) =>
     /\ hookRoles \subseteq get_user_roles(user)
     /\ isAdmin => "admin" \in get_user_roles(user) \/ "super_admin" \in get_user_roles(user)
     /\ isSuperAdmin => "super_admin" \in get_user_roles(user)

\* ==================================================================== C24
\* The step in which RoleManagement builds its list: the mount effect's
\* fetchData(), or a handler that went on to fetchUsersWithRoles().
ListingBuilt ==
  \/ RMFetchData
  \/ \E I \in Users, R \in AssignNames :
       /\ lastOp'.err = "none"
       /\ \/ lastOp'.op = "handleAssignRole" /\ handleAssignRole(I, R)
          \/ lastOp'.op = "handleRemoveRole" /\ handleRemoveRole(I, R)

\* How often identity u is listed, and how often name n is in the roles of the
\* k-th entry of the list.
TimesListed(list, u) == Cardinality({k \in 1..Len(list) : list[k].id = u})
TimesNamed(list, k, n) ==
  Cardinality({i \in 1..Len(list[k].roles) : list[k].roles[i] = n})

CatalogueNames == {RoleNames[i] : i \in 1..NumSeedRoles} \cup {UnknownRole}

\* C24: in the listing built by fetchUsersWithRoles each identity that has at
\* least one Assignment row appears exactly once, its role list contains
\* exactly the names of the roles assigned to it, each once, and no identity
\* without an Assignment appears.
C24_ListingGroupsPerIdentity ==
  [][ListingBuilt =>
       /\ \A u \in Users :
            TimesListed(rmUsers', u) = IF get_user_roles(u)' # {} THEN 1 ELSE 0
       /\ \A k \in 1..Len(rmUsers') :
            /\ rmUsers'[k].id \in Users
            /\ \A n \in CatalogueNames :
                 TimesNamed(rmUsers', k, n) =
                   IF n \in RoleNamesOf(user_roles', roles', rmUsers'[k].id)
                   THEN 1 ELSE 0
    ]_vars

\* ==================================================================== C21
\* The store before the migration block, with UserManagement fetching its
\* list: legacy entries of every kind, some identities already assigned.
NextAdminFlag ==
  \/ \E u \in Users : SignIn(u)
  \/ SignOut
  \/ \E i \in 1..MaxPending, ok \in BOOLEAN : FetchReturn(i, ok)
  \/ \E granted \in BOOLEAN : UMFetchUsers(granted)

SpecAdminFlag == InitMigration /\ [][NextAdminFlag]_vars

\* C21: the is_admin flag UserManagement shows for an identity equals what
\* is_admin() answers for that identity, in every store state: also for an
\* identity with an admin or super_admin Assignment and no legacy entry, and
\* for one whose legacy entry has a role outside {admin, super_admin}. (The
\* list is fetched by a caller the store lets read admin_users.)
C21_ListedAdminFlagIsIsAdmin ==
  [][UMFetchUsers(TRUE) =>
       \A x \in umUsers' : \A c \in UserIdByEmail(x.email) :
          x.is_admin = is_admin(c)
    ]_vars

\* ==================================================================== C22
\* RoleManagement at work while roles are created and deleted and identities
\* are deleted.
NextIntegrity ==
  \/ NextRoleManagement
  \/ \E u \in Users : DeleteIdentity(u)

SpecIntegrity == Init /\ [][NextIntegrity]_vars

\* C22: in every reachable state every Assignment row references a Role that
\* is in the catalog and an identity that exists: deleting a Role or an
\* identity takes the rows that reference it along in the same step, and no
\* assign creates a row for a missing role or identity.
C22_AssignmentsReferenceExisting ==
  \A ur \in user_roles : ur.role_id \in RoleIds /\ ur.user_id \in auth_users

\* An identity that held Assignments is gone, and an assign that named a
\* missing role or identity has just been refused.
C22_Witness ==
  /\ \E u \in Users \ auth_users : \E rec \in admin_users : rec.email = Email(u)
  /\ lastOp.op = "handleAssignRole" /\ lastOp.err = "23503"

\* ==================================================================== C23
\* The lists of names hasAnyRole is asked about.
AskedNames == {"super_admin", "admin", "yogi_in_training", UnknownRole}

\* C23: hasAnyRole(names) is true exactly when the hook's role set and names
\* have a name in common; hasAnyRole of the empty list is false;
\* hasAnyRole([n]) equals hasRole(n); and isSuperAdmin() implies isAdmin().
C23_HookEvaluators ==
  /\ \A names \in SUBSET AskedNames :
       hasAnyRole(names) <=> (names \cap hookRoles # {})
  /\ ~hasAnyRole({})
  /\ \A n \in CatalogueNames : hasAnyRole({n}) <=> hasRole(n)
  /\ isSuperAdmin => isAdmin

\* The hook has resolved a role set that holds super_admin and not admin,
\* and a name that no caller of hasAnyRole asks about.
C23_Witness ==
  /\ user = EvalCaller /\ pending = <<>>
  /\ "super_admin" \in hookRoles /\ "admin" \notin hookRoles
  /\ "zen_analyst" \in hookRoles /\ "yogi_in_training" \notin hookRoles

\* ==================================================================== C25
\* C25: the hook's role set always belongs to the signed-in user: with no
\* user it is empty and stays empty until a user signs in, and whenever it
\* changes to a set that is not empty, that set is the signed-in user's, also
\* when the response of an earlier user's request comes in late.
C25_RoleSetOfSignedInUser ==
  /\ [](user = NoUser => hookRoles = {})
  /\ [][(hookRoles' # hookRoles /\ hookRoles' # {})
          => (user' \in Users /\ hookRoles' = RoleNamesOf(user_roles', roles', user'))
       ]_vars

\* ==================================================================== C26
\* C26: when handleStatusUpdate(b, S) reports success, booking b exists with
\* status S afterwards: a write that matched no row, because the row is gone
\* or the policy hides it from the caller, is not reported as a success.
C26_StatusUpdateSuccessMeansWritten ==
  [][\A b \in BookingIds, st \in NewStatuses :
       (/\ lastOp'.op = "handleStatusUpdate" /\ handleStatusUpdate(b, st)
        /\ lastOp'.err = "none")
         => \E r \in bookings' : r.id = b /\ r.status = st
    ]_vars

\* ==================================================================== C27
\* BookingManagement with its handlers overlapping.
InFlightStatuses == {"confirmed"}

NextInFlight ==
  \/ \E u \in Users : SignIn(u)
  \/ SignOut
  \/ \E i \in 1..MaxPending, ok \in BOOLEAN : FetchReturn(i, ok)
  \/ BMFetchBookings
  \/ \E b \in BookingIds, st \in InFlightStatuses : handleStatusUpdateBegin(b, st)
  \/ \E b \in BookingIds, cf \in BOOLEAN : handleDeleteBookingBegin(b, cf)
  \/ \E i \in 1..MaxCalls : bookingWriteReturn(i)
  \/ \E i \in 1..MaxCalls : bookingFetchReturn(i)

SpecInFlight == Init /\ [][NextInFlight]_vars

\* The bookings that have an update or a delete in flight.
InFlight == {bmCalls[i].id : i \in 1..Len(bmCalls)}

\* C27: while an update or a delete of a booking is in flight actionLoading
\* names a booking that has one in flight, and it is null once none is: of two
\* actions on different bookings, the completion of one does not clear the
\* indicator while the other is still in flight.
C27_ActionLoadingTracksInFlight ==
  /\ InFlight = {} => actionLoading = 0
  /\ InFlight # {} => actionLoading \in InFlight

\* ==================================================================== C28
\* C28: the migration block never widens admin-equivalence. After it has run
\* an identity holds the admin or super_admin Assignment only if it held that
\* Assignment before or its email had a legacy entry with role admin or
\* super_admin (super_admin only for a legacy super_admin entry); entries with
\* any other role and entries whose email no identity has produce no
\* Assignment; and a second run changes nothing.
C28_MigrationNeverWidens ==
  [][Migrate =>
       /\ \A u \in Users, n \in {"admin", "super_admin"} :
            n \in AssignedNames(u)' =>
              \/ n \in AssignedNames(u)
              \/ \E a \in admin_users :
                   /\ a.email = Email(u)
                   /\ a.role \in {"admin", "super_admin"}
                   /\ n = "super_admin" => a.role = "super_admin"
       /\ \A ur \in user_roles' \ user_roles : ur.user_id \in auth_users
       /\ MigrationResult(admin_users, roles, user_roles') = user_roles'
    ]_vars

\* ==================================================================== C29
\* C29: after handleRemoveAdmin(email) has reported success is_admin() is
\* false for the identity with that email, and after handleMakeAdmin(email)
\* has reported success the identity is admin-equivalent in every evaluator:
\* is_admin() is true for it, and so is the hook's isAdmin() when the hook holds
\* the identity's roles as the store has them. This holds from every state,
\* also for an identity that was migrated into user_roles. (The store lets
\* the caller's statement on admin_users through.)
C29_AdminToggleTakesEffect ==
  [][\A u \in Users :
       /\ (/\ lastOp'.op = "handleRemoveAdmin" /\ lastOp'.err = "none"
           /\ handleRemoveAdmin(Email(u), TRUE, TRUE))
            => ~is_admin(u)'
       /\ (/\ lastOp'.op = "handleMakeAdmin" /\ lastOp'.err = "none"
           /\ handleMakeAdmin(Email(u), TRUE))
            => /\ is_admin(u)'
               /\ (user = u /\ hookRoles = get_user_roles(u)) => isAdmin'
    ]_vars

\* ==================================================================== C30
\* C30: in every store state and for every caller can_manage_roles() implies
\* is_admin(), so whoever the write policy of user_roles admits the read-all
\* policy admits too; and a caller that is admin-equivalent only through the
\* admin role or only through the legacy list has is_admin() and not
\* can_manage_roles().
C30_ManagersAreAdmins ==
  \A c \in Users :
    /\ can_manage_roles(c) => is_admin(c)
    /\ UserRolesManagePolicy(c) => UserRolesAdminReadPolicy(c)
    /\ (/\ "super_admin" \notin AssignedNames(c)
        /\ \/ "admin" \in AssignedNames(c)
           \/ LegacyRoles(c) \cap {"admin", "super_admin"} # {})
         => is_admin(c) /\ ~can_manage_roles(c)

\* The signed-in caller holds super_admin, neither admin nor a legacy entry:
\* it may manage roles and is admin-equivalent through that role alone.
C30_Witness ==
  /\ user = EvalCaller
  /\ "super_admin" \in AssignedNames(user) /\ "admin" \notin AssignedNames(user)
  /\ LegacyRoles(user) = {}
  /\ UserRolesManagePolicy(user)

====
